---- MODULE Spec2Model ----
(***************************************************************************)
(* Model of the BraveSearch client (erik-balfe/brave-search).              *)
(*                                                                         *)
(* The source tree holds four revisions of class BraveSearch:              *)
(*   "r1"  src/src/braveSearch.ts   lines  36-222  (getSummarizedAnswer is *)
(*         async and awaits the poller; errors carry no responseData)      *)
(*   "r2"  src/src/braveSearch.ts   lines 290-500  (two promises)          *)
(*   "r3"  src/unnamed/part_002     lines  41-245  (422 retry in webSearch)*)
(*   "r4"  src/unnamed/part_002     lines 313-546  (PollingOptions,        *)
(*         AbortSignal, local searches without options)                    *)
(* The variable revision selects which of them the client runs.            *)
(*                                                                         *)
(* Strings that the code concatenates or searches (error messages) are     *)
(* sequences of tokens; String.prototype.includes is contiguous            *)
(* sub-sequence search on the tokens.  A JavaScript value that may be      *)
(* undefined is a record with a presence flag.                             *)
(***************************************************************************)
EXTENDS Integers, Sequences, FiniteSets

(***************************************************************************)
(* Bounds of the model                                                     *)
(***************************************************************************)
\* largest maxPollAttempts value a caller passes to the constructor
MaxAttemptsOpt == 2

\* longest time, in milliseconds, a summarizer request takes to answer
MaxRequestDuration == 1

\* number of getSummarizedAnswer calls that poll at the same time
MaxCalls == 2

Revisions == {"r1", "r2", "r3", "r4"}

(***************************************************************************)
(* Program constants                                                       *)
(***************************************************************************)
DEFAULT_POLLING_INTERVAL == 500
DEFAULT_MAX_POLL_ATTEMPTS == 20
DEFAULT_POLLING_TIMEOUT == 20000
R1_MAX_POLL_ATTEMPTS == 5
BASE_URL == "https://api.search.brave.com/res/v1"
WIDENED_RESULT_FILTER == "discussions,faq,news,query,summarizer,videos,web,infobox"
RETRY_PHRASE == "Retrying with modified 'result_filter' option in request"

(***************************************************************************)
(* JavaScript values                                                       *)
(***************************************************************************)
Undefined == [t |-> "undefined", s |-> "", n |-> 0, b |-> FALSE]
JsStr(x)  == [t |-> "string",    s |-> x,  n |-> 0, b |-> FALSE]
JsNum(x)  == [t |-> "number",    s |-> "", n |-> x, b |-> FALSE]
JsBool(x) == [t |-> "boolean",   s |-> "", n |-> 0, b |-> x]

\* Number.prototype.toString for the numbers the model uses
NumToString(n) ==
  CASE n = 0 -> "0" [] n = 1 -> "1" [] n = 2 -> "2" [] n = 3 -> "3"
    [] n = 5 -> "5" [] n = 401 -> "401" [] n = 422 -> "422"
    [] n = 429 -> "429" [] n = 500 -> "500" [] OTHER -> "NaN"

\* value.toString(), as a token sequence
toString(v) ==
  CASE v.t = "string"  -> <<v.s>>
    [] v.t = "number"  -> <<NumToString(v.n)>>
    [] v.t = "boolean" -> (IF v.b THEN <<"true">> ELSE <<"false">>)
    [] OTHER           -> <<"undefined">>

\* mutant: a || b, which replaces every falsy a, the number 0 included
Nullish_falsyReplaced(a, b) ==
  IF a.t = "undefined" \/ (a.t = "number" /\ a.n = 0) THEN b ELSE a

\* a ?? b
Nullish(a, b) == IF a.t = "undefined" THEN b ELSE a

\* {...a, ...b}: a later key replaces an earlier one
Spread(a, b) ==
  [k \in DOMAIN a \cup DOMAIN b |-> IF k \in DOMAIN b THEN b[k] ELSE a[k]]

EmptyObject == [k \in {} |-> <<>>]

\* hay.includes(needle) on token sequences
Includes(hay, needle) ==
  \E i \in 0..(Len(hay) - Len(needle)) :
     SubSeq(hay, i + 1, i + Len(needle)) = needle

\* Array.prototype.join(",") on a list of identifiers
RECURSIVE JoinTokens(_)
JoinTokens(ids) ==
  IF ids = <<>> THEN <<>>
  ELSE IF Len(ids) = 1 THEN <<ids[1]>>
  ELSE <<ids[1], ",">> \o JoinTokens(Tail(ids))

(***************************************************************************)
(* Errors                                                                  *)
(***************************************************************************)
\* error.response.data: the body of an HTTP error response
NoBody       == [present |-> FALSE, hasMessage |-> FALSE, message |-> <<>>]
BodyWith(m)  == [present |-> TRUE,  hasMessage |-> TRUE,  message |-> m]
BodyNoMsg    == [present |-> TRUE,  hasMessage |-> FALSE, message |-> <<>>]

\* An error value.  name is "AxiosError", "BraveSearchError" or "none" (no
\* error); an AxiosError has a response when the server answered.
NoError == [name |-> "none", hasResponse |-> FALSE, status |-> 0,
            data |-> NoBody, message |-> <<>>, responseData |-> NoBody]

AxiosHttpError(st, body) ==
  [name |-> "AxiosError", hasResponse |-> TRUE, status |-> st, data |-> body,
   message |-> <<"Request failed with status code ", NumToString(st)>>,
   responseData |-> NoBody]

AxiosTransportError ==
  [name |-> "AxiosError", hasResponse |-> FALSE, status |-> 0, data |-> NoBody,
   message |-> <<"Network Error">>, responseData |-> NoBody]

\* what axios.get throws when its AbortSignal is aborted (axios 1.x:
\* CanceledError extends AxiosError, message "canceled", no response)
AxiosCanceledError ==
  [name |-> "AxiosError", hasResponse |-> FALSE, status |-> 0, data |-> NoBody,
   message |-> <<"canceled">>, responseData |-> NoBody]

\* new BraveSearchError(message, responseData)
BraveSearchError(msg, rd) ==
  [name |-> "BraveSearchError", hasResponse |-> FALSE, status |-> 0,
   data |-> NoBody, message |-> msg, responseData |-> rd]

\* axios.isAxiosError(error)
isAxiosError(error) == error.name = "AxiosError"

\* `${status}` of error.response?.status
StatusText(error) ==
  IF error.hasResponse THEN NumToString(error.status) ELSE "undefined"

\* mutant: the `|| error.message` fallback is missing
ErrorMessage_noFallback(error) ==
  IF error.hasResponse /\ error.data.present /\ error.data.hasMessage
     /\ error.data.message # <<>>
  THEN error.data.message ELSE <<"undefined">>

\* error.response?.data?.message || error.message
ErrorMessage(error) ==
  IF error.hasResponse /\ error.data.present /\ error.data.hasMessage
     /\ error.data.message # <<>>
  THEN error.data.message ELSE error.message

\* error.response?.data
ErrorResponseData(error) == IF error.hasResponse THEN error.data ELSE NoBody

\* status === n  (error.response?.status is undefined without a response)
StatusIs(error, n) == error.hasResponse /\ error.status = n

\* handleApiError of revision r1: no responseData is attached
handleApiErrorR1(error) ==
  IF isAxiosError(error)
  THEN IF StatusIs(error, 429)
       THEN BraveSearchError(<<"Rate limit exceeded", ": ">> \o ErrorMessage(error), NoBody)
       ELSE IF StatusIs(error, 401)
       THEN BraveSearchError(<<"Authentication error", ": ">> \o ErrorMessage(error), NoBody)
       ELSE BraveSearchError(<<"API error (", StatusText(error), "): ">>
                             \o ErrorMessage(error), NoBody)
  ELSE BraveSearchError(<<"Unexpected error: ">> \o error.message, NoBody)

\* mutant: the `status === 401` branch is missing
handleApiErrorR2_no401Branch(error) ==
  IF isAxiosError(error)
  THEN IF StatusIs(error, 429)
       THEN BraveSearchError(<<"Rate limit exceeded", ": ">> \o ErrorMessage(error),
                             ErrorResponseData(error))
       ELSE BraveSearchError(<<"API error (", StatusText(error), "): ">>
                             \o ErrorMessage(error), ErrorResponseData(error))
  ELSE BraveSearchError(<<"Unexpected error: ">> \o error.message, NoBody)

\* handleApiError of revisions r2 and r4
handleApiErrorR2(error) ==
  IF isAxiosError(error)
  THEN IF StatusIs(error, 429)
       THEN BraveSearchError(<<"Rate limit exceeded", ": ">> \o ErrorMessage(error),
                             ErrorResponseData(error))
       ELSE IF StatusIs(error, 401)
       THEN BraveSearchError(<<"Authentication error", ": ">> \o ErrorMessage(error),
                             ErrorResponseData(error))
       ELSE BraveSearchError(<<"API error (", StatusText(error), "): ">>
                             \o ErrorMessage(error), ErrorResponseData(error))
  ELSE BraveSearchError(<<"Unexpected error: ">> \o error.message, NoBody)

\* handleApiError of revision r3: a 422 gets the retry notice appended
handleApiErrorR3(error) ==
  IF isAxiosError(error)
  THEN IF StatusIs(error, 429)
       THEN BraveSearchError(<<"Rate limit exceeded", ": ">> \o ErrorMessage(error),
                             ErrorResponseData(error))
       ELSE IF StatusIs(error, 401)
       THEN BraveSearchError(<<"Authentication error", ": ">> \o ErrorMessage(error),
                             ErrorResponseData(error))
       ELSE IF StatusIs(error, 422)
       THEN BraveSearchError(<<"API error (", StatusText(error), "): ">>
                             \o ErrorMessage(error) \o <<". ", RETRY_PHRASE, ".">>,
                             ErrorResponseData(error))
       ELSE BraveSearchError(<<"API error (", StatusText(error), "): ">>
                             \o ErrorMessage(error), ErrorResponseData(error))
  ELSE BraveSearchError(<<"Unexpected error: ">> \o error.message, NoBody)

handleApiError(rev, error) ==
  CASE rev = "r1" -> handleApiErrorR1(error)
    [] rev = "r3" -> handleApiErrorR3(error)
    [] OTHER      -> handleApiErrorR2(error)

(***************************************************************************)
(* Construction, headers, parameters                                       *)
(***************************************************************************)
\* the second constructor argument: absent, or an object whose two fields
\* may each be undefined
NoPollingOptions ==
  [present |-> FALSE, maxPollAttempts |-> Undefined, pollInterval |-> Undefined]

PollingOptionsOf(a, i) ==
  [present |-> TRUE, maxPollAttempts |-> a, pollInterval |-> i]

\* field initialisers of the class, before the constructor body runs
FieldDefaults(rev) ==
  CASE rev = "r1" -> [pollInterval |-> DEFAULT_POLLING_INTERVAL,
                      maxPollAttempts |-> R1_MAX_POLL_ATTEMPTS]
    [] rev = "r4" -> [pollInterval |-> DEFAULT_POLLING_INTERVAL,
                      maxPollAttempts |-> DEFAULT_MAX_POLL_ATTEMPTS]
    [] OTHER      -> [pollInterval |-> DEFAULT_POLLING_INTERVAL,
                      maxPollAttempts |->
                         DEFAULT_POLLING_TIMEOUT \div DEFAULT_POLLING_INTERVAL]

\* constructor(apiKey, options)
Constructor(rev, key, options) ==
  [apiKey  |-> key,
   baseUrl |-> BASE_URL,
   pollInterval |->
     IF options.present
     THEN Nullish(options.pollInterval, JsNum(FieldDefaults(rev).pollInterval)).n
     ELSE FieldDefaults(rev).pollInterval,
   maxPollAttempts |->
     IF options.present
     THEN Nullish(options.maxPollAttempts, JsNum(FieldDefaults(rev).maxPollAttempts)).n
     ELSE FieldDefaults(rev).maxPollAttempts]

HeaderNames == {"Accept", "Accept-Encoding", "X-Subscription-Token"}

\* mutant: the credential header is sent without the key
getHeaders_noApiKey(cfg) ==
  [h \in HeaderNames |->
     CASE h = "Accept"          -> "application/json"
       [] h = "Accept-Encoding" -> "gzip"
       [] OTHER                 -> ""]

\* getHeaders()
getHeaders(cfg) ==
  [h \in HeaderNames |->
     CASE h = "Accept"          -> "application/json"
       [] h = "Accept-Encoding" -> "gzip"
       [] OTHER                 -> cfg.apiKey]

\* mutant: the `value !== undefined` test is missing
formatOptions_keepsUndefined(options) ==
  [k \in DOMAIN options |-> toString(options[k])]

\* formatOptions(options): drop undefined values, stringify the others
formatOptions(options) ==
  [k \in {j \in DOMAIN options : options[j].t # "undefined"} |->
     toString(options[k])]

\* new URLSearchParams({q: query, ...this.formatOptions(options)})
WebSearchParams(query, options) ==
  Spread([q |-> <<query>>], formatOptions(options))

\* mutant: getSummarizedAnswer calls webSearch(query, {...options, summary: true})
SummarizedAnswerWebParams_addsSummary(query, options) ==
  WebSearchParams(query, Spread(options, [summary |-> JsBool(TRUE)]))

\* getSummarizedAnswer: this.webSearch(query, options) with its own arguments
SummarizedAnswerWebParams(query, options) == WebSearchParams(query, options)

\* new URLSearchParams({key, ...this.formatOptions(options)})
SummarizerParams(key, options) ==
  Spread([key |-> <<key>>], formatOptions(options))

\* new URLSearchParams({ids: ids.join(","), ...}); r4 takes no options
LocalParams(rev, ids, options) ==
  IF rev = "r4" THEN [ids |-> JoinTokens(ids)]
  ELSE Spread([ids |-> JoinTokens(ids)], formatOptions(options))

\* mutant: a result_filter the caller sent is kept (set only when absent)
RetryParams_keepsExisting(params) ==
  [k \in DOMAIN params \cup {"result_filter"} |->
     IF k \in DOMAIN params THEN params[k] ELSE <<WIDENED_RESULT_FILTER>>]

\* modifiedParams.set("result_filter", ...)
RetryParams(params) ==
  [k \in DOMAIN params \cup {"result_filter"} |->
     IF k = "result_filter" THEN <<WIDENED_RESULT_FILTER>> ELSE params[k]]

\* one axios.get
Request(cfg, path, params) ==
  [url |-> cfg.baseUrl, endpoint |-> path, params |-> params,
   headers |-> getHeaders(cfg)]

NoRequest ==
  [url |-> "", endpoint |-> "", params |-> EmptyObject,
   headers |-> [h \in HeaderNames |-> ""]]

(***************************************************************************)
(* Responses of the server                                                 *)
(***************************************************************************)
\* body of a web search response: webSearchResponse.summarizer?.key
NoWebData == [received |-> FALSE, hasSummarizer |-> FALSE, key |-> ""]
WebData(hs, k) == [received |-> TRUE, hasSummarizer |-> hs, key |-> k]
WebDatas == {WebData(FALSE, ""), WebData(TRUE, ""), WebData(TRUE, "k1")}

\* body of a summarizer response: status, and summary (undefined or a list)
NoLookupData ==
  [received |-> FALSE, status |-> "", hasSummary |-> FALSE, summary |-> <<>>]
LookupData(st, hs, sm) ==
  [received |-> TRUE, status |-> st, hasSummary |-> hs, summary |-> sm]
LookupDatas ==
  {LookupData(st, FALSE, <<>>) : st \in {"complete", "failed", "pending"}}
  \cup {LookupData(st, TRUE, sm) :
          st \in {"complete", "failed", "pending"}, sm \in {<<>>, <<"text">>}}

ServerMessages == {<<"bad request">>, <<RETRY_PHRASE>>}
ErrorBodies == {NoBody, BodyNoMsg} \cup {BodyWith(m) : m \in ServerMessages}
ErrorStatuses == {401, 422, 429, 500}

\* what a failed axios.get throws
AxiosErrors ==
  {AxiosHttpError(st, b) : st \in ErrorStatuses, b \in ErrorBodies}
  \cup {AxiosTransportError}

\* the optional AbortSignal argument: only r4 has the parameter
SignalsFor(rev) == IF rev = "r4" THEN {"none", "live"} ELSE {"none"}

\* mutant: the signal is not handed to axios.get
Cancelled_signalNotPassed(sig) == FALSE

\* axios.get(url, {headers, signal}): the request observes the signal
Cancelled(sig) == sig = "aborted"

\* what an axios.get in flight can throw: an aborted signal cancels it
ThrownBy(sig) == IF Cancelled(sig) THEN {AxiosCanceledError} ELSE AxiosErrors

(***************************************************************************)
(* Promises                                                                *)
(***************************************************************************)
\* state is "none" (not created), "pending", "fulfilled" or "rejected"
NoPromise ==
  [state |-> "none", web |-> NoWebData, defined |-> FALSE,
   summary |-> NoLookupData, error |-> NoError]
Pending == [NoPromise EXCEPT !.state = "pending"]
FulfilledWeb(d) == [NoPromise EXCEPT !.state = "fulfilled", !.web = d]
FulfilledSummary(d) ==
  [NoPromise EXCEPT !.state = "fulfilled", !.defined = TRUE, !.summary = d]
FulfilledUndefined == [NoPromise EXCEPT !.state = "fulfilled"]
Rejected(e) == [NoPromise EXCEPT !.state = "rejected", !.error = e]
Settled(p) == p.state \in {"fulfilled", "rejected"}

(***************************************************************************)
(* Decisions of the code                                                   *)
(***************************************************************************)
\* mutant: polls whenever a web search response arrived
SummarizerKeyPresent_anyResponse(web) == web.received

\* if (summarizerKey): an absent key and the empty string are falsy
SummarizerKeyPresent(web) == web.hasSummarizer /\ web.key # ""

\* summaryResponse.status === "complete" && summaryResponse.summary
\* (an array, empty or not, is truthy; undefined is falsy)
SummaryReady(resp) == resp.status = "complete" /\ resp.hasSummary

\* mutant: the status is compared with a misspelt "completed"
PollDecision_neverReturns(resp) ==
  IF resp.status = "failed" THEN "throw" ELSE "wait"

\* mutant: a failed summary is polled again
PollDecision_failedWaits(resp) ==
  IF SummaryReady(resp) THEN "return" ELSE "wait"

\* the branch taken after one lookup response
PollDecision(resp) ==
  IF SummaryReady(resp) THEN "return"
  ELSE IF resp.status = "failed" THEN "throw"
  ELSE "wait"

\* mutant: attempt <= this.maxPollAttempts
LoopCondition_inclusive(att, cfg) == att <= cfg.maxPollAttempts

\* attempt < this.maxPollAttempts
LoopCondition(att, cfg) == att < cfg.maxPollAttempts

\* handledError.message.includes("Retrying with modified ...") (r3 only)
ShouldRetry(rev, handledError) ==
  rev = "r3" /\ Includes(handledError.message, <<RETRY_PHRASE>>)

\* mutant: the catch of the retry rethrows the error of the first request
RetryRejection_original(rev, handledError, retryError) == handledError

\* catch (retryError) { throw this.handleApiError(retryError); }
RetryRejection(rev, handledError, retryError) == handleApiError(rev, retryError)

SummaryFailedError == BraveSearchError(<<"Summary generation failed">>, NoBody)
\* mutant: the loop's exit throws the message of the "failed" branch
SummaryTimeoutError_sameAsFailed ==
  BraveSearchError(<<"Summary generation failed">>, NoBody)

SummaryTimeoutError ==
  BraveSearchError(<<"Summary not available after maximum polling attempts">>, NoBody)

\* r1: what the single promise of getSummarizedAnswer settles to once the
\* poller has settled (return {summary, webSearchResponse} / catch)
AnswerAfterPoll(rev, web, poll) ==
  IF poll.state = "fulfilled"
  THEN [state |-> "fulfilled", web |-> web, defined |-> poll.defined,
        summary |-> poll.summary, error |-> NoError]
  ELSE Rejected(handleApiError(rev, poll.error))

(***************************************************************************)
(* Inputs of the calls                                                     *)
(***************************************************************************)
ApiKeys == {"secret"}
Queries == {"stars"}
WebOptionSets ==
  {EmptyObject,
   [result_filter |-> JsStr("web")],
   [count |-> JsNum(5), safesearch |-> Undefined],
   [q |-> JsStr("other")]}
SummarizerOptionSets ==
  {EmptyObject, [entity_info |-> JsBool(TRUE)], [key |-> JsStr("k2")]}
IdLists == {<<"id1">>, <<"id1", "id2">>}
LocalOptionSets == {EmptyObject, [ids |-> JsStr("zz")]}
PollingOptionSets ==
  {NoPollingOptions}
  \cup {PollingOptionsOf(a, i) :
          a \in {Undefined} \cup {JsNum(n) : n \in 0..MaxAttemptsOpt},
          i \in {Undefined, JsNum(1000)}}

NoArgs == [query |-> "", options |-> EmptyObject,
           summarizerOptions |-> EmptyObject, ids |-> <<>>]

(***************************************************************************)
(* Concurrent calls                                                        *)
(***************************************************************************)
Calls == 1..MaxCalls

\* the summarizer key in the web search response of call c
KeyOf(c) == CASE c = 1 -> "k1" [] c = 2 -> "k2" [] OTHER -> "k3"

\* one call of pollForSummary: its parameter key, its loop variable attempt,
\* the key it last handed to summarizerSearch, and the promise it returned
IdlePoller ==
  [pc |-> "idle", attempt |-> 0, nLookups |-> 0, key |-> "",
   lookupKey |-> "", outcome |-> NoPromise]

\* what the summarizer answers, and what a request throws, in these runs
ConcurrentLookupDatas ==
  {LookupData("pending", FALSE, <<>>), LookupData("failed", FALSE, <<>>),
   LookupData("complete", TRUE, <<"text">>)}
ConcurrentErrors == {AxiosTransportError}

\* mutant: the loop counter is a field of the client, shared by the pollers
NextAttempt_sharedCounter(ps, c) ==
  1 + (CHOOSE m \in {ps[d].attempt : d \in Calls} :
         \A d \in Calls : ps[d].attempt <= m)

\* attempt++ on the `let attempt` of the call's own for loop
NextAttempt(ps, c) == ps[c].attempt + 1

\* the head of the for loop of poller p, reached with attempt = att
LoopHead(p, att, cfg) ==
  IF LoopCondition(att, cfg)
  THEN [p EXCEPT !.attempt = att, !.pc = "lookup", !.nLookups = @ + 1,
                 !.lookupKey = p.key, !.outcome = Pending]
  ELSE [p EXCEPT !.attempt = att, !.pc = "done",
                 !.outcome = Rejected(SummaryTimeoutError)]

(***************************************************************************)
(* State                                                                   *)
(***************************************************************************)
VARIABLES
  revision,        \* which revision of the class runs
  config,          \* apiKey, baseUrl, pollInterval, maxPollAttempts
  pollingOptions,  \* the options argument the constructor was given
  op,              \* the public operation in progress, "none" when idle
  pc,              \* "idle", "web", "retry", "lookup", "wait", "local", "done"
  args,            \* arguments of the operation in progress
  request,         \* the last request handed to axios.get
  nWebRequests,    \* web search requests issued by this call
  nLookups,        \* summarizer requests issued by this call
  nLocalRequests,  \* local requests issued by this call
  nWaits,          \* interval timers started by this call
  attempt,         \* loop variable of pollForSummary
  lastLookup,      \* body of the last summarizer response received
  firstWebFailure, \* what the first web search request threw, if it threw
  lastFailure,     \* what the last request threw, NoError if it returned
  webOutcome,      \* the promise returned by webSearch
  summaryOutcome,  \* r2..r4: the summary promise of getSummarizedAnswer
  answerOutcome,   \* r1: the single promise of getSummarizedAnswer
  localOutcome,    \* the promise returned by a local search
  pollOutcome,     \* the promise returned by pollForSummary
  signal,          \* the AbortSignal argument: "none", "live" or "aborted"
  abortedAt,       \* pc at the moment the signal was aborted, else "none"
  latency,         \* ms each summarizer request of this call takes to settle
  clock,           \* ms spent in pollForSummary by this call so far
  lookupsInFlight, \* summarizer requests handed to axios and not yet settled
  timersPending,   \* interval timers set and not yet expired
  pollers,         \* concurrent calls: the poller of each call
  summarizerKey    \* the key getSummarizedAnswer read from the web search
                   \* response, "" while it has read none

vars == <<revision, config, pollingOptions, op, pc, args, request, nWebRequests, nLookups,
          nLocalRequests, nWaits, attempt, lastLookup, firstWebFailure,
          lastFailure, webOutcome, summaryOutcome, answerOutcome,
          localOutcome, pollOutcome, signal, abortedAt, latency, clock,
          lookupsInFlight, timersPending, pollers, summarizerKey>>

cancel   == <<signal, abortedAt>>
timing   == <<latency, clock>>
pending  == <<lookupsInFlight, timersPending>>
oneCall  == <<op, pc, args, request, nWebRequests, nLookups, nLocalRequests,
              nWaits, attempt, lastLookup, firstWebFailure, lastFailure,
              webOutcome, summaryOutcome, answerOutcome, localOutcome,
              pollOutcome, signal, abortedAt, latency, clock,
              lookupsInFlight, timersPending, summarizerKey>>
counters == <<nWebRequests, nLookups, nLocalRequests, nWaits>>
outcomes == <<webOutcome, summaryOutcome, answerOutcome, localOutcome, pollOutcome>>
history  == <<lastLookup, firstWebFailure, lastFailure>>

Init ==
  /\ revision \in Revisions
  /\ \E k \in ApiKeys, o \in PollingOptionSets :
        /\ config = Constructor(revision, k, o)
        /\ pollingOptions = o
  /\ op = "none"
  /\ pc = "idle"
  /\ args = NoArgs
  /\ request = NoRequest
  /\ nWebRequests = 0
  /\ nLookups = 0
  /\ nLocalRequests = 0
  /\ nWaits = 0
  /\ attempt = 0
  /\ lastLookup = NoLookupData
  /\ firstWebFailure = NoError
  /\ lastFailure = NoError
  /\ webOutcome = NoPromise
  /\ summaryOutcome = NoPromise
  /\ answerOutcome = NoPromise
  /\ localOutcome = NoPromise
  /\ pollOutcome = NoPromise
  /\ signal = "none"
  /\ abortedAt = "none"
  /\ latency = 0
  /\ clock = 0
  /\ lookupsInFlight = 0
  /\ timersPending = 0
  /\ pollers = [c \in Calls |-> IdlePoller]
  /\ summarizerKey = ""

(***************************************************************************)
(* Steps shared by the handlers                                            *)
(***************************************************************************)
\* pollForSummary returns or throws; the summary outcome follows it
PollSettles(res, web) ==
  /\ pollOutcome' = res
  /\ pc' = "done"
  /\ summaryOutcome' = IF revision = "r1" THEN summaryOutcome ELSE res
  /\ answerOutcome' = IF revision = "r1"
                      THEN AnswerAfterPoll(revision, web, res)
                      ELSE answerOutcome

\* the head of the for loop, reached with attempt = att
EnterLoop(att, key, web) ==
  /\ attempt' = att
  /\ IF LoopCondition(att, config)
     THEN /\ request' = Request(config, "/summarizer/search",
                                SummarizerParams(key, args.summarizerOptions))
          /\ nLookups' = nLookups + 1
          /\ lookupsInFlight' = lookupsInFlight + 1
          /\ pc' = "lookup"
          /\ pollOutcome' = Pending
          /\ UNCHANGED <<summaryOutcome, answerOutcome>>
     ELSE /\ PollSettles(Rejected(SummaryTimeoutError), web)
          /\ UNCHANGED <<request, nLookups, lookupsInFlight>>

\* webSearch returns response.data; getSummarizedAnswer continues with it
AfterWebSuccess(d) ==
  /\ webOutcome' = FulfilledWeb(d)
  /\ summarizerKey' = IF op = "webSearch" THEN summarizerKey ELSE d.key
  /\ IF op = "webSearch"
     THEN /\ pc' = "done"
          /\ UNCHANGED <<attempt, request, nLookups, lookupsInFlight,
                         pollOutcome, summaryOutcome, answerOutcome>>
     ELSE IF SummarizerKeyPresent(d)
     THEN EnterLoop(0, d.key, d)
     ELSE /\ pc' = "done"
          /\ summaryOutcome' = IF revision = "r1" THEN summaryOutcome
                               ELSE FulfilledUndefined
          /\ answerOutcome' = IF revision = "r1"
                              THEN [FulfilledUndefined EXCEPT !.web = d]
                              ELSE answerOutcome
          /\ UNCHANGED <<attempt, request, nLookups, lookupsInFlight,
                         pollOutcome>>

\* mutant: the summary promise catches the web search failure and resolves
AfterWebFailure_summaryResolves(handled) ==
  /\ webOutcome' = Rejected(handled)
  /\ pc' = "done"
  /\ summaryOutcome' = IF op = "getSummarizedAnswer" /\ revision # "r1"
                       THEN FulfilledUndefined ELSE summaryOutcome
  /\ answerOutcome' = IF op = "getSummarizedAnswer" /\ revision = "r1"
                      THEN Rejected(handleApiError(revision, handled))
                      ELSE answerOutcome

\* webSearch throws handled; getSummarizedAnswer passes the rejection on
AfterWebFailure(handled) ==
  /\ webOutcome' = Rejected(handled)
  /\ pc' = "done"
  /\ summaryOutcome' = IF op = "getSummarizedAnswer" /\ revision # "r1"
                       THEN Rejected(handled) ELSE summaryOutcome
  /\ answerOutcome' = IF op = "getSummarizedAnswer" /\ revision = "r1"
                      THEN Rejected(handleApiError(revision, handled))
                      ELSE answerOutcome

(***************************************************************************)
(* Actions                                                                 *)
(***************************************************************************)
CallWebSearch ==
  /\ pc = "idle"
  /\ signal' \in SignalsFor(revision)
  /\ \E q \in Queries, o \in WebOptionSets :
       /\ args' = [NoArgs EXCEPT !.query = q, !.options = o]
       /\ request' = Request(config, "/web/search", WebSearchParams(q, o))
  /\ op' = "webSearch"
  /\ nWebRequests' = 1
  /\ webOutcome' = Pending
  /\ pc' = "web"
  /\ latency' = 0
  /\ clock' = 0
  /\ UNCHANGED pending
  /\ UNCHANGED <<pollers, summarizerKey, revision, config, pollingOptions, abortedAt, nLookups, nLocalRequests, nWaits, attempt,
                 history, summaryOutcome, answerOutcome, localOutcome,
                 pollOutcome>>

\* mutant: the poller is started with the web search request, not after it
CallGetSummarizedAnswer_pollsAtOnce ==
  /\ pc = "idle"
  /\ signal' \in SignalsFor(revision)
  /\ \E q \in Queries, o \in WebOptionSets, so \in SummarizerOptionSets :
       /\ args' = [NoArgs EXCEPT !.query = q, !.options = o,
                                 !.summarizerOptions = so]
       /\ request' = Request(config, "/summarizer/search",
                             SummarizerParams(summarizerKey, so))
  /\ op' = "getSummarizedAnswer"
  /\ nWebRequests' = 1
  /\ nLookups' = 1
  /\ lookupsInFlight' = 1
  /\ webOutcome' = Pending
  /\ pollOutcome' = Pending
  /\ summaryOutcome' = IF revision = "r1" THEN NoPromise ELSE Pending
  /\ answerOutcome' = IF revision = "r1" THEN Pending ELSE NoPromise
  /\ pc' = "lookup"
  /\ latency' \in 0..MaxRequestDuration
  /\ clock' = 0
  /\ UNCHANGED <<pollers, summarizerKey, revision, config, pollingOptions,
                 abortedAt, nLocalRequests, nWaits, attempt, timersPending,
                 history, localOutcome>>

CallGetSummarizedAnswer ==
  /\ pc = "idle"
  /\ signal' \in SignalsFor(revision)
  /\ \E q \in Queries, o \in WebOptionSets, so \in SummarizerOptionSets :
       /\ args' = [NoArgs EXCEPT !.query = q, !.options = o,
                                 !.summarizerOptions = so]
       /\ request' = Request(config, "/web/search",
                             SummarizedAnswerWebParams(q, o))
  /\ op' = "getSummarizedAnswer"
  /\ nWebRequests' = 1
  /\ webOutcome' = Pending
  /\ summaryOutcome' = IF revision = "r1" THEN NoPromise ELSE Pending
  /\ answerOutcome' = IF revision = "r1" THEN Pending ELSE NoPromise
  /\ pc' = "web"
  /\ latency' \in 0..MaxRequestDuration
  /\ clock' = 0
  /\ UNCHANGED pending
  /\ UNCHANGED <<pollers, summarizerKey, revision, config, pollingOptions, abortedAt, nLookups, nLocalRequests, nWaits, attempt,
                 history, localOutcome, pollOutcome>>

CallLocalPoiSearch ==
  /\ pc = "idle"
  /\ signal' \in SignalsFor(revision)
  /\ \E ids \in IdLists, o \in LocalOptionSets :
       /\ args' = [NoArgs EXCEPT !.ids = ids, !.options = o]
       /\ request' = Request(config, "/local/pois", LocalParams(revision, ids, o))
  /\ op' = "localPoiSearch"
  /\ nLocalRequests' = 1
  /\ localOutcome' = Pending
  /\ pc' = "local"
  /\ latency' = 0
  /\ clock' = 0
  /\ UNCHANGED pending
  /\ UNCHANGED <<pollers, summarizerKey, revision, config, pollingOptions, abortedAt, nWebRequests, nLookups, nWaits, attempt,
                 history, webOutcome, summaryOutcome, answerOutcome,
                 pollOutcome>>

CallLocalDescriptionsSearch ==
  /\ pc = "idle"
  /\ signal' \in SignalsFor(revision)
  /\ \E ids \in IdLists, o \in LocalOptionSets :
       /\ args' = [NoArgs EXCEPT !.ids = ids, !.options = o]
       /\ request' = Request(config, "/local/descriptions",
                             LocalParams(revision, ids, o))
  /\ op' = "localDescriptionsSearch"
  /\ nLocalRequests' = 1
  /\ localOutcome' = Pending
  /\ pc' = "local"
  /\ latency' = 0
  /\ clock' = 0
  /\ UNCHANGED pending
  /\ UNCHANGED <<pollers, summarizerKey, revision, config, pollingOptions, abortedAt, nWebRequests, nLookups, nWaits, attempt,
                 history, webOutcome, summaryOutcome, answerOutcome,
                 pollOutcome>>

\* the first web search request returns a body
WebSearchSucceeds ==
  /\ pc = "web"
  /\ ~Cancelled(signal)
  /\ \E d \in WebDatas : AfterWebSuccess(d)
  /\ lastFailure' = NoError
  /\ clock' = 0
  /\ UNCHANGED latency
  /\ UNCHANGED timersPending
  /\ UNCHANGED <<pollers, revision, config, pollingOptions, cancel, op, args, nWebRequests, nLocalRequests,
                 nWaits, lastLookup, firstWebFailure, localOutcome>>

\* the first web search request throws: the catch block of webSearch
WebSearchFails ==
  /\ pc = "web"
  /\ \E e \in ThrownBy(signal) :
       /\ firstWebFailure' = e
       /\ lastFailure' = e
       /\ LET handledError == handleApiError(revision, e) IN
          IF ShouldRetry(revision, handledError)
          THEN /\ request' = Request(config, "/web/search",
                                     RetryParams(request.params))
               /\ nWebRequests' = nWebRequests + 1
               /\ pc' = "retry"
               /\ UNCHANGED <<webOutcome, summaryOutcome, answerOutcome>>
          ELSE /\ AfterWebFailure(handledError)
               /\ UNCHANGED <<request, nWebRequests>>
  /\ UNCHANGED timing
  /\ UNCHANGED pending
  /\ UNCHANGED <<pollers, summarizerKey, revision, config, pollingOptions, cancel, op, args, nLookups, nLocalRequests, nWaits,
                 attempt, lastLookup, localOutcome, pollOutcome>>

\* the retry request returns a body
RetrySucceeds ==
  /\ pc = "retry"
  /\ ~Cancelled(signal)
  /\ \E d \in WebDatas : AfterWebSuccess(d)
  /\ lastFailure' = NoError
  /\ clock' = 0
  /\ UNCHANGED latency
  /\ UNCHANGED timersPending
  /\ UNCHANGED <<pollers, revision, config, pollingOptions, cancel, op, args, nWebRequests, nLocalRequests,
                 nWaits, lastLookup, firstWebFailure, localOutcome>>

\* the retry request throws: catch (retryError)
RetryFails ==
  /\ pc = "retry"
  /\ \E e \in ThrownBy(signal) :
       /\ lastFailure' = e
       /\ AfterWebFailure(RetryRejection(revision,
                             handleApiError(revision, firstWebFailure), e))
  /\ UNCHANGED timing
  /\ UNCHANGED pending
  /\ UNCHANGED <<pollers, summarizerKey, revision, config, pollingOptions, cancel, op, args, request, counters, attempt,
                 lastLookup, firstWebFailure, localOutcome, pollOutcome>>

\* mutant: the setTimeout promise is not awaited, the loop goes on at once
LookupSucceeds_timerNotAwaited ==
  /\ pc = "lookup"
  /\ ~Cancelled(signal)
  /\ \E d \in LookupDatas :
       /\ lastLookup' = d
       /\ CASE PollDecision(d) = "return" ->
                 /\ PollSettles(FulfilledSummary(d), webOutcome.web)
                 /\ lookupsInFlight' = lookupsInFlight - 1
                 /\ UNCHANGED <<nWaits, timersPending, attempt, nLookups>>
            [] PollDecision(d) = "throw" ->
                 /\ PollSettles(Rejected(SummaryFailedError), webOutcome.web)
                 /\ lookupsInFlight' = lookupsInFlight - 1
                 /\ UNCHANGED <<nWaits, timersPending, attempt, nLookups>>
            [] OTHER ->
                 /\ nWaits' = nWaits + 1
                 /\ timersPending' = timersPending + 1
                 /\ attempt' = attempt + 1
                 /\ IF LoopCondition(attempt + 1, config)
                    THEN /\ nLookups' = nLookups + 1
                         /\ lookupsInFlight' = lookupsInFlight
                         /\ UNCHANGED <<pc, pollOutcome, summaryOutcome,
                                        answerOutcome>>
                    ELSE /\ PollSettles(Rejected(SummaryTimeoutError),
                                        webOutcome.web)
                         /\ lookupsInFlight' = lookupsInFlight - 1
                         /\ UNCHANGED nLookups
  /\ lastFailure' = NoError
  /\ clock' = clock + latency
  /\ UNCHANGED latency
  /\ UNCHANGED <<pollers, summarizerKey, revision, config, pollingOptions, cancel, op, args, request,
                 nWebRequests, nLocalRequests, firstWebFailure, webOutcome,
                 localOutcome>>

\* a summarizer request returns a body: the rest of the loop body
LookupSucceeds ==
  /\ pc = "lookup"
  /\ ~Cancelled(signal)
  /\ \E d \in LookupDatas :
       /\ lastLookup' = d
       /\ CASE PollDecision(d) = "return" ->
                 /\ PollSettles(FulfilledSummary(d), webOutcome.web)
                 /\ UNCHANGED <<nWaits, timersPending>>
            [] PollDecision(d) = "throw" ->
                 /\ PollSettles(Rejected(SummaryFailedError), webOutcome.web)
                 /\ UNCHANGED <<nWaits, timersPending>>
            [] OTHER ->
                 /\ pc' = "wait"
                 /\ nWaits' = nWaits + 1
                 /\ timersPending' = timersPending + 1
                 /\ UNCHANGED <<pollOutcome, summaryOutcome, answerOutcome>>
  /\ lastFailure' = NoError
  /\ clock' = clock + latency
  /\ UNCHANGED latency
  /\ lookupsInFlight' = lookupsInFlight - 1
  /\ UNCHANGED <<pollers, summarizerKey, revision, config, pollingOptions, cancel, op, args, request, nWebRequests, nLookups,
                 nLocalRequests, attempt, firstWebFailure, webOutcome,
                 localOutcome>>

\* mutant: the poller catches a request's error and polls on
LookupFails_keepsPolling ==
  /\ pc = "lookup"
  /\ \E e \in ThrownBy(signal) : lastFailure' = e
  /\ lastLookup' = NoLookupData
  /\ pc' = "wait"
  /\ nWaits' = nWaits + 1
  /\ timersPending' = timersPending + 1
  /\ lookupsInFlight' = lookupsInFlight - 1
  /\ clock' = clock + latency
  /\ UNCHANGED latency
  /\ UNCHANGED <<pollers, summarizerKey, revision, config, pollingOptions, cancel, op, args, request,
                 nWebRequests, nLookups, nLocalRequests, attempt,
                 firstWebFailure, outcomes>>

\* a summarizer request throws: summarizerSearch rethrows, the poller ends
LookupFails ==
  /\ pc = "lookup"
  /\ \E e \in ThrownBy(signal) :
       /\ lastFailure' = e
       /\ PollSettles(Rejected(handleApiError(revision, e)), webOutcome.web)
  /\ lastLookup' = NoLookupData
  /\ clock' = clock + latency
  /\ UNCHANGED latency
  /\ lookupsInFlight' = lookupsInFlight - 1
  /\ UNCHANGED timersPending
  /\ UNCHANGED <<pollers, summarizerKey, revision, config, pollingOptions, cancel, op, args, request, counters, attempt,
                 firstWebFailure, webOutcome, localOutcome>>

\* mutant: the poller counts its budget down in this.maxPollAttempts
TimerFires_consumesBudget ==
  /\ pc = "wait"
  /\ EnterLoop(attempt + 1, summarizerKey, webOutcome.web)
  /\ clock' = clock + config.pollInterval
  /\ config' = [config EXCEPT !.maxPollAttempts = @ - 1]
  /\ UNCHANGED latency
  /\ timersPending' = timersPending - 1
  /\ UNCHANGED <<pollers, summarizerKey, revision, pollingOptions, cancel, op, args, nWebRequests,
                 nLocalRequests, nWaits, history, webOutcome, localOutcome>>

\* setTimeout resolves: attempt++ and the loop head
TimerFires ==
  /\ pc = "wait"
  /\ EnterLoop(attempt + 1, summarizerKey, webOutcome.web)
  /\ clock' = clock + config.pollInterval
  /\ UNCHANGED latency
  /\ timersPending' = timersPending - 1
  /\ UNCHANGED <<pollers, summarizerKey, revision, config, pollingOptions, cancel, op, args, nWebRequests, nLocalRequests,
                 nWaits, history, webOutcome, localOutcome>>

LocalSucceeds ==
  /\ pc = "local"
  /\ ~Cancelled(signal)
  /\ localOutcome' = [NoPromise EXCEPT !.state = "fulfilled", !.defined = TRUE]
  /\ lastFailure' = NoError
  /\ pc' = "done"
  /\ UNCHANGED timing
  /\ UNCHANGED pending
  /\ UNCHANGED <<pollers, summarizerKey, revision, config, pollingOptions, cancel, op, args, request, counters, attempt,
                 lastLookup, firstWebFailure, webOutcome, summaryOutcome,
                 answerOutcome, pollOutcome>>

LocalFails ==
  /\ pc = "local"
  /\ \E e \in ThrownBy(signal) :
       /\ lastFailure' = e
       /\ localOutcome' = Rejected(handleApiError(revision, e))
  /\ pc' = "done"
  /\ UNCHANGED timing
  /\ UNCHANGED pending
  /\ UNCHANGED <<pollers, summarizerKey, revision, config, pollingOptions, cancel, op, args, request, counters, attempt,
                 lastLookup, firstWebFailure, webOutcome, summaryOutcome,
                 answerOutcome, pollOutcome>>

\* the caller aborts the AbortController whose signal it passed
\* mutant: an abort during the wait rejects the poller at once and leaves
\* the timer running
Abort_timerNotCleared ==
  /\ signal = "live"
  /\ pc \in {"web", "lookup", "wait", "local"}
  /\ signal' = "aborted"
  /\ abortedAt' = pc
  /\ IF pc = "wait"
     THEN PollSettles(Rejected(handleApiError(revision, AxiosCanceledError)),
                      webOutcome.web)
     ELSE UNCHANGED <<pc, pollOutcome, summaryOutcome, answerOutcome>>
  /\ UNCHANGED timing
  /\ UNCHANGED pending
  /\ UNCHANGED <<pollers, summarizerKey, revision, config, pollingOptions, op, args, request, counters,
                 attempt, history, webOutcome, localOutcome>>

Abort ==
  /\ signal = "live"
  /\ pc \in {"web", "lookup", "wait", "local"}
  /\ signal' = "aborted"
  /\ abortedAt' = pc
  /\ UNCHANGED timing
  /\ UNCHANGED pending
  /\ UNCHANGED <<pollers, summarizerKey, revision, config, pollingOptions, op, pc, args, request, counters, attempt,
                 history, outcomes>>

\* the caller has consumed the outcomes; the client is used for another call
NewCall ==
  /\ pc = "done"
  /\ op' = "none"
  /\ pc' = "idle"
  /\ args' = NoArgs
  /\ request' = NoRequest
  /\ nWebRequests' = 0
  /\ nLookups' = 0
  /\ nLocalRequests' = 0
  /\ nWaits' = 0
  /\ attempt' = 0
  /\ lastLookup' = NoLookupData
  /\ firstWebFailure' = NoError
  /\ lastFailure' = NoError
  /\ webOutcome' = NoPromise
  /\ summaryOutcome' = NoPromise
  /\ answerOutcome' = NoPromise
  /\ localOutcome' = NoPromise
  /\ pollOutcome' = NoPromise
  /\ signal' = "none"
  /\ abortedAt' = "none"
  /\ latency' = 0
  /\ clock' = 0
  /\ UNCHANGED pending
  /\ summarizerKey' = ""
  /\ UNCHANGED <<pollers, revision, config, pollingOptions>>

Next ==
  \/ CallWebSearch
  \/ CallGetSummarizedAnswer
  \/ CallLocalPoiSearch
  \/ CallLocalDescriptionsSearch
  \/ WebSearchSucceeds
  \/ WebSearchFails
  \/ RetrySucceeds
  \/ RetryFails
  \/ LookupSucceeds
  \/ LookupFails
  \/ TimerFires
  \/ LocalSucceeds
  \/ LocalFails
  \/ Abort
  \/ NewCall

Spec == Init /\ [][Next]_vars

(***************************************************************************)
(* Several getSummarizedAnswer calls polling on one client                 *)
(***************************************************************************)
\* the web search of call c returned its key: pollForSummary(key, ...)
PollerStarts ==
  \E c \in Calls :
    /\ pollers[c].pc = "idle"
    /\ pollers' = [pollers EXCEPT
                     ![c] = LoopHead([@ EXCEPT !.key = KeyOf(c)], 0, config)]
    /\ UNCHANGED <<revision, config, pollingOptions, oneCall>>

\* a summarizer request of call c returns a body
PollerLookupSucceeds ==
  \E c \in Calls, d \in ConcurrentLookupDatas :
    /\ pollers[c].pc = "lookup"
    /\ pollers' = [pollers EXCEPT ![c] =
         CASE PollDecision(d) = "return" ->
                [@ EXCEPT !.pc = "done", !.outcome = FulfilledSummary(d)]
           [] PollDecision(d) = "throw" ->
                [@ EXCEPT !.pc = "done",
                          !.outcome = Rejected(SummaryFailedError)]
           [] OTHER -> [@ EXCEPT !.pc = "wait"]]
    /\ UNCHANGED <<revision, config, pollingOptions, oneCall>>

\* a summarizer request of call c throws
PollerLookupFails ==
  \E c \in Calls, e \in ConcurrentErrors :
    /\ pollers[c].pc = "lookup"
    /\ pollers' = [pollers EXCEPT ![c] =
         [@ EXCEPT !.pc = "done",
                   !.outcome = Rejected(handleApiError(revision, e))]]
    /\ UNCHANGED <<revision, config, pollingOptions, oneCall>>

\* the timer of call c expires: attempt++ and the loop head
PollerTimerFires ==
  \E c \in Calls :
    /\ pollers[c].pc = "wait"
    /\ pollers' = [pollers EXCEPT
                     ![c] = LoopHead(@, NextAttempt(pollers, c), config)]
    /\ UNCHANGED <<revision, config, pollingOptions, oneCall>>

\* clients whose constructor was given maxPollAttempts
InitConcurrent ==
  /\ Init
  /\ pollingOptions.present
  /\ pollingOptions.maxPollAttempts.t = "number"

NextConcurrent ==
  \/ PollerStarts
  \/ PollerLookupSucceeds
  \/ PollerLookupFails
  \/ PollerTimerFires

SpecConcurrent == InitConcurrent /\ [][NextConcurrent]_vars

(***************************************************************************)
(* What the caller of getSummarizedAnswer holds                            *)
(***************************************************************************)
\* r1 returns one promise for {summary, webSearchResponse}; r2..r4 return
\* the two promises {webSearch, summary}
CallerWebOutcome ==
  IF revision = "r1" /\ op = "getSummarizedAnswer" THEN answerOutcome
  ELSE webOutcome

CallerSummaryOutcome ==
  IF revision = "r1" THEN answerOutcome ELSE summaryOutcome

TypeOK ==
  /\ revision \in Revisions
  /\ pc \in {"idle", "web", "retry", "lookup", "wait", "local", "done"}
  /\ op \in {"none", "webSearch", "getSummarizedAnswer", "localPoiSearch",
             "localDescriptionsSearch"}
  /\ nWebRequests \in 0..2
  /\ nLookups \in Nat /\ nWaits \in Nat /\ attempt \in Nat
  /\ latency \in 0..MaxRequestDuration /\ clock \in Nat
  /\ lookupsInFlight \in Nat /\ timersPending \in Nat

(***************************************************************************)
(* Properties                                                              *)
(***************************************************************************)
\* a lookup response with status "complete" and a non-empty summary list
CompleteWithSummary(r) ==
  r.received /\ r.status = "complete" /\ r.hasSummary /\ r.summary # <<>>

\* a lookup response that leaves the summary pending: the status is neither
\* "complete" nor "failed", or it is "complete" without a summary field
NonTerminal(r) ==
  r.received /\ r.status # "failed" /\ (r.status = "complete" => ~r.hasSummary)

\* C1: once a lookup answers with status "complete" and a non-empty summary,
\* pollForSummary has returned exactly that response and the requests issued
\* are those of the attempts so far: none follows the response.
C1_ReturnsFirstCompleteSummary ==
  CompleteWithSummary(lastLookup) =>
     /\ pc = "done"
     /\ pollOutcome = FulfilledSummary(lastLookup)
     /\ nLookups = attempt + 1

C1_Witness ==
  /\ CompleteWithSummary(lastLookup)
  /\ pollOutcome.state = "fulfilled"
  /\ nLookups = 2

\* C2 (as claimed): after a "complete" response whose summary is absent or an
\* empty list the poller has not returned; it is waiting, polling again, or
\* has run out of attempts.
C2_EmptySummaryKeepsPolling ==
  (lastLookup.received /\ lastLookup.status = "complete"
     /\ (~lastLookup.hasSummary \/ lastLookup.summary = <<>>))
  => /\ pollOutcome.state # "fulfilled"
     /\ \/ pc = "wait" /\ nLookups = attempt + 1
        \/ pc = "lookup"
        \/ pc = "done" /\ pollOutcome = Rejected(SummaryTimeoutError)

\* C3: once a lookup answers with status "failed", pollForSummary has thrown
\* "Summary generation failed"; no timer was started after the response and
\* no further request was issued, whatever budget remains.
C3_FailedRaisesImmediately ==
  (lastLookup.received /\ lastLookup.status = "failed") =>
     /\ pc = "done"
     /\ pollOutcome = Rejected(SummaryFailedError)
     /\ nLookups = attempt + 1
     /\ nWaits = attempt

C3_Witness ==
  /\ lastLookup.received /\ lastLookup.status = "failed"
  /\ pollOutcome.state = "rejected"
  /\ nLookups = 1
  /\ config.maxPollAttempts > 1

C5_NoKeyNoLookup ==
  (op = "getSummarizedAnswer" /\ webOutcome.state = "fulfilled"
     /\ (~webOutcome.web.hasSummarizer \/ webOutcome.web.key = ""))
  => /\ CallerSummaryOutcome.state = "fulfilled"
     /\ ~CallerSummaryOutcome.defined
     /\ nLookups = 0
     /\ pollOutcome.state = "none"
     /\ pc = "done"

C5_Witness ==
  /\ op = "getSummarizedAnswer"
  /\ webOutcome.state = "fulfilled"
  /\ ~webOutcome.web.hasSummarizer
  /\ CallerSummaryOutcome.state = "fulfilled"

\* C6 (as claimed): in a getSummarizedAnswer call the web search outcome the
\* caller holds is fulfilled with the web search response as soon as that
\* response has arrived, whatever the poller is doing or has thrown.
C6_WebOutcomeIndependent ==
  (op = "getSummarizedAnswer" /\ webOutcome.state = "fulfilled")
  => /\ CallerWebOutcome.state = "fulfilled"
     /\ CallerWebOutcome.web = webOutcome.web

\* C7 (as claimed): a web search whose first request returned HTTP 422 issues
\* exactly one more request, with result_filter set to the widened list, and
\* never a third one.
C7_Retry422Once ==
  /\ nWebRequests <= 2
  /\ (pc # "web" /\ firstWebFailure.hasResponse /\ firstWebFailure.status = 422)
     => /\ nWebRequests = 2
        /\ pc = "retry" =>
             /\ request.endpoint = "/web/search"
             /\ "result_filter" \in DOMAIN request.params
             /\ request.params["result_filter"] = <<WIDENED_RESULT_FILTER>>

\* C8 (as claimed): a second web search request is issued only after an HTTP
\* 422 response, whatever message the server sent with another failure.
C8_RetryOnlyOn422 ==
  nWebRequests = 2 =>
     (firstWebFailure.hasResponse /\ firstWebFailure.status = 422)

\* C9: when the retry request fails too, webSearch rejects with the error
\* classified from the retry's failure: its class by status, its message and
\* its response body.
C9_RetryErrorSurfaced ==
  (pc = "done" /\ nWebRequests = 2 /\ webOutcome.state = "rejected") =>
     LET e == webOutcome.error
         f == lastFailure
     IN  /\ e.name = "BraveSearchError"
         /\ e.responseData = (IF f.hasResponse THEN f.data ELSE NoBody)
         /\ Includes(e.message,
               IF f.hasResponse /\ f.data.hasMessage THEN f.data.message
               ELSE f.message)
         /\ Includes(e.message,
               CASE f.hasResponse /\ f.status = 429 -> <<"Rate limit exceeded">>
                 [] f.hasResponse /\ f.status = 401 -> <<"Authentication error">>
                 [] f.hasResponse /\ f.status \notin {401, 429} ->
                       <<"API error (", NumToString(f.status), "): ">>
                 [] OTHER -> <<"API error (", "undefined", "): ">>)

C9_Witness ==
  /\ pc = "done" /\ nWebRequests = 2 /\ webOutcome.state = "rejected"
  /\ firstWebFailure.status = 422
  /\ lastFailure.hasResponse /\ lastFailure.status = 429
  /\ lastFailure.data # firstWebFailure.data

\* C10 (as claimed): whenever a request of a finished call failed with HTTP
\* 429, every rejected outcome of the call carries a message containing
\* "Rate limit exceeded" and the body of that response.
C10_RateLimitError ==
  (pc = "done" /\ lastFailure.hasResponse /\ lastFailure.status = 429) =>
     /\ \E p \in {CallerWebOutcome, CallerSummaryOutcome, localOutcome} :
           p.state = "rejected"
     /\ \A p \in {webOutcome, localOutcome, pollOutcome,
               CallerWebOutcome, CallerSummaryOutcome} :
           p.state = "rejected" =>
              /\ Includes(p.error.message, <<"Rate limit exceeded">>)
              /\ p.error.responseData = lastFailure.data

\* C11 (as claimed): the poller is never left waiting on its interval timer
\* once the signal is aborted, and a poller whose signal was aborted during
\* the wait calls axios.get no more.
C11_AbortEndsWait ==
  [][ /\ ~(signal' = "aborted" /\ pc' = "wait")
      /\ abortedAt = "wait" => nLookups' <= nLookups ]_vars

\* C12: when the signal was aborted while a summarizer request was in flight,
\* the next step of the poller is its end: pollForSummary and the summary
\* outcome reject with the error made from axios's "canceled", no timer is
\* started and no further request is issued.
C12_AbortEndsLookup ==
  [][ (abortedAt = "lookup" /\ pc = "lookup") =>
        /\ pc' = "done"
        /\ pollOutcome'.state = "rejected"
        /\ Includes(pollOutcome'.error.message, <<"canceled">>)
        /\ summaryOutcome'.state = "rejected"
        /\ Includes(summaryOutcome'.error.message, <<"canceled">>)
        /\ nLookups' = nLookups
        /\ nWaits' = nWaits ]_vars

C12_Witness ==
  /\ abortedAt = "lookup"
  /\ pc = "done"
  /\ pollOutcome.state = "rejected"
  /\ Includes(pollOutcome.error.message, <<"canceled">>)
  /\ nLookups = 2

\* The options of a call as they appear among the parameters p of a request:
\* an undefined value adds no parameter (a parameter of that name can only be
\* the positional one), a defined value is there under its key, converted to
\* a string.
OptionsSent(options, positional, p) ==
  \A k \in DOMAIN options :
     IF options[k].t = "undefined"
       THEN k \in DOMAIN p => k = positional
       ELSE /\ k \in DOMAIN p
            /\ p[k] = toString(options[k])
            /\ p[k] # <<"undefined">>

\* C13: in the request an operation builds from its options (the web search
\* request, the summarizer request, the local request of the revisions whose
\* local searches take options), a key whose value is undefined is absent
\* and every key with a defined value is present with its value converted to
\* a string; the literal "undefined" is never sent.
C13_UndefinedOptionsOmitted ==
  /\ pc = "web" => OptionsSent(args.options, "q", request.params)
  /\ pc = "lookup" => OptionsSent(args.summarizerOptions, "key", request.params)
  /\ (pc = "local" /\ revision # "r4") =>
        OptionsSent(args.options, "ids", request.params)
  /\ \A k \in DOMAIN request.params :
        /\ request.params[k] # <<"undefined">>
        /\ request.params[k] # <<>>

C13_Witness ==
  /\ pc = "web"
  /\ args.options = [count |-> JsNum(5), safesearch |-> Undefined]
  /\ request.params = [q |-> <<args.query>>, count |-> <<"5">>]

\* j is the elements of ids in their order with "," between neighbours
JoinedInOrder(ids, j) ==
  /\ Len(j) = 2 * Len(ids) - 1
  /\ \A i \in 1..Len(ids) : j[2 * i - 1] = ids[i]
  /\ \A i \in 1..(Len(ids) - 1) : j[2 * i] = ","

\* C14 (as claimed): the ids parameter of the request of localPoiSearch and
\* of localDescriptionsSearch is the identifier list of the call joined with
\* "," in its original order.
C14_IdsJoinedInOrder ==
  pc = "local" =>
    /\ "ids" \in DOMAIN request.params
    /\ JoinedInOrder(args.ids, request.params["ids"])

\* C15 (as claimed): a client constructed without polling options has
\* pollInterval 500 and maxPollAttempts 20; a supplied option replaces its
\* default, an option that is not supplied keeps 500 or 20.
C15_PollingDefaults ==
  /\ config.pollInterval =
       IF pollingOptions.present /\ pollingOptions.pollInterval.t # "undefined"
       THEN pollingOptions.pollInterval.n
       ELSE DEFAULT_POLLING_INTERVAL
  /\ config.maxPollAttempts =
       IF pollingOptions.present /\ pollingOptions.maxPollAttempts.t # "undefined"
       THEN pollingOptions.maxPollAttempts.n
       ELSE DEFAULT_MAX_POLL_ATTEMPTS

\* the promise the running operation gave its caller for the failing part
ReturnedPromise ==
  CASE op = "webSearch" -> webOutcome
    [] op = "getSummarizedAnswer" -> CallerSummaryOutcome
    [] OTHER -> localOutcome

\* C16 (as claimed): when a request of an operation threw, or the poller
\* ended with "failed" or with the timeout, the operation's promise is
\* rejected, and with a BraveSearchError; the one failure after which the
\* operation goes on instead is an HTTP 422 of the first web search request.
C16_FailuresRejectWithBraveSearchError ==
  /\ lastFailure.name # "none" =>
       \/ /\ pc = "retry"
          /\ lastFailure.hasResponse
          /\ lastFailure.status = 422
       \/ /\ pc = "done"
          /\ ReturnedPromise.state = "rejected"
  /\ (pc = "done" /\ pollOutcome.state = "rejected") =>
        CallerSummaryOutcome.state = "rejected"
  /\ \A p \in {webOutcome, localOutcome, pollOutcome, CallerWebOutcome,
               CallerSummaryOutcome} :
        p.state = "rejected" => p.error.name = "BraveSearchError"

\* the message of the error the caller's summary outcome was rejected with
SurfacedMessage == CallerSummaryOutcome.error.message

\* C17: when the poller ran out of attempts with the summary still pending
\* (or had no attempt at all), the caller's summary outcome is rejected with
\* a message that carries the timeout text and not the "failed" text; when
\* the poller saw status "failed" it is rejected with a message that carries
\* the "failed" text and not the timeout text.  This holds both where the
\* poller's error reaches the caller as thrown and where getSummarizedAnswer
\* wraps it again.
C17_TimeoutDistinctFromFailed ==
  /\ (pc = "done" /\ (NonTerminal(lastLookup)
                        \/ (nLookups = 0 /\ pollOutcome.state = "rejected"))) =>
        /\ CallerSummaryOutcome.state = "rejected"
        /\ Includes(SurfacedMessage,
                    <<"Summary not available after maximum polling attempts">>)
        /\ ~Includes(SurfacedMessage, <<"Summary generation failed">>)
  /\ (lastLookup.received /\ lastLookup.status = "failed") =>
        /\ CallerSummaryOutcome.state = "rejected"
        /\ Includes(SurfacedMessage, <<"Summary generation failed">>)
        /\ ~Includes(SurfacedMessage,
                     <<"Summary not available after maximum polling attempts">>)

C17_Witness ==
  /\ revision = "r1"
  /\ pc = "done"
  /\ NonTerminal(lastLookup)
  /\ nLookups = 2
  /\ answerOutcome.state = "rejected"
  /\ answerOutcome.error.message =
       <<"Unexpected error: ",
         "Summary not available after maximum polling attempts">>

\* C18 (as claimed): a poller that ends with the timeout error, that is
\* after pending responses only, has spent at most maxPollAttempts *
\* pollInterval plus the duration of one request in pollForSummary.
C18_TerminatesWithinBudget ==
  pollOutcome = Rejected(SummaryTimeoutError) =>
     clock <= config.maxPollAttempts * config.pollInterval + latency

\* C19 (as claimed): the poller waits after a non-terminal response only
\* when an attempt remains, so that a poller that ends with the timeout
\* error after N requests has started at most N - 1 timers.
C19_NoWaitAfterLastAttempt ==
  /\ pc = "wait" => attempt + 1 < config.maxPollAttempts
  /\ (pollOutcome = Rejected(SummaryTimeoutError) /\ nLookups >= 1) =>
        nWaits <= nLookups - 1

\* C20 (as claimed): when a request was answered with HTTP 429 or 401, the
\* operation is over without another request, and its promise is rejected
\* with a rate-limit error (429) or an authentication error (401).
C20_NoRetryAfter429Or401 ==
  /\ (lastFailure.hasResponse /\ lastFailure.status \in {429, 401}) =>
        /\ pc = "done"
        /\ ReturnedPromise.state = "rejected"
        /\ Includes(ReturnedPromise.error.message,
                    IF lastFailure.status = 429
                    THEN <<"Rate limit exceeded">>
                    ELSE <<"Authentication error">>)
  /\ (firstWebFailure.hasResponse /\ firstWebFailure.status \in {429, 401}) =>
        nWebRequests = 1

\* the promise that was rejected with handleApiError's result for the last
\* request that threw: webSearch's, the poller's or the local search's
HandledFailure ==
  CASE op \in {"localPoiSearch", "localDescriptionsSearch"} -> localOutcome
    [] op = "getSummarizedAnswer" /\ nLookups > 0 -> pollOutcome
    [] OTHER -> webOutcome

\* C21: when the last request of a finished operation was answered with an
\* error status, the error made from it is a BraveSearchError of exactly one
\* class, decided by the status alone: "Rate limit exceeded" for 429,
\* "Authentication error" for 401, and for every other status "API error"
\* with the status code; the message carries the server's message when the
\* body has one, axios's own message otherwise.
C21_ClassifiedByStatus ==
  (pc = "done" /\ lastFailure.hasResponse) =>
     LET e == HandledFailure.error
         m == e.message
         serverMessage ==
           IF lastFailure.data.present /\ lastFailure.data.hasMessage
           THEN lastFailure.data.message
           ELSE <<"Request failed with status code ",
                  NumToString(lastFailure.status)>>
     IN /\ HandledFailure.state = "rejected"
        /\ e.name = "BraveSearchError"
        /\ m[1] \in {"Rate limit exceeded", "Authentication error", "API error ("}
        /\ m[1] = "Rate limit exceeded" <=> lastFailure.status = 429
        /\ m[1] = "Authentication error" <=> lastFailure.status = 401
        /\ m[1] = "API error (" => m[2] = NumToString(lastFailure.status)
        /\ SubSeq(m, Len(m) - Len(serverMessage) + 1, Len(m)) = serverMessage
           \/ (revision = "r3" /\ lastFailure.status = 422
                 /\ Includes(m, serverMessage))

C21_Witness ==
  /\ pc = "done"
  /\ op = "localPoiSearch"
  /\ lastFailure = AxiosHttpError(500, BodyWith(<<"bad request">>))
  /\ localOutcome.state = "rejected"
  /\ localOutcome.error.message = <<"API error (", "500", "): ", "bad request">>

\* C22: when a request failed without an HTTP response, the operation is
\* over (no second web search request, no further lookup), and its promise
\* is rejected with a BraveSearchError whose message contains the text of
\* the transport error.
C22_TransportErrorWrapped ==
  /\ (lastFailure.name = "AxiosError" /\ ~lastFailure.hasResponse) =>
        /\ pc = "done"
        /\ HandledFailure.state = "rejected"
        /\ HandledFailure.error.name = "BraveSearchError"
        /\ Includes(HandledFailure.error.message, lastFailure.message)
        /\ ReturnedPromise.state = "rejected"
        /\ ReturnedPromise.error.name = "BraveSearchError"
        /\ Includes(ReturnedPromise.error.message, lastFailure.message)
  /\ (firstWebFailure.name = "AxiosError" /\ ~firstWebFailure.hasResponse) =>
        nWebRequests = 1

C22_Witness ==
  /\ revision = "r3"
  /\ op = "webSearch"
  /\ pc = "done"
  /\ lastFailure = AxiosTransportError
  /\ nWebRequests = 1
  /\ webOutcome.state = "rejected"
  /\ webOutcome.error.message =
       <<"API error (", "undefined", "): ", "Network Error">>

\* C23 (as claimed): when the web search response of getSummarizedAnswer has
\* a summarizer key, pollForSummary was called, and each of its requests is
\* a summarizer request whose key parameter is that key and whose other
\* parameters are the caller's summarizer options.
C23_LookupsCarryKeyAndOptions ==
  /\ (op = "getSummarizedAnswer" /\ webOutcome.state = "fulfilled"
        /\ SummarizerKeyPresent(webOutcome.web)) =>
        /\ pollOutcome.state # "none"
        /\ nLookups >= 1 \/ config.maxPollAttempts < 1
  /\ nLookups >= 1 =>
        /\ webOutcome.state = "fulfilled"
        /\ SummarizerKeyPresent(webOutcome.web)
  /\ pc \in {"lookup", "wait"} =>
        /\ request.endpoint = "/summarizer/search"
        /\ "key" \in DOMAIN request.params
        /\ request.params["key"] = <<webOutcome.web.key>>
        /\ \A k \in DOMAIN args.summarizerOptions \ {"key"} :
              /\ k \in DOMAIN request.params
              /\ request.params[k] = toString(args.summarizerOptions[k])
        /\ DOMAIN request.params \subseteq
              {"key"} \cup DOMAIN args.summarizerOptions

\* C24: the request in flight, whichever it is (web search, its 422 retry, a
\* summarizer request, a local request), has exactly the three headers
\* Accept: application/json, Accept-Encoding: gzip and X-Subscription-Token
\* with the API key the client was constructed with.
C24_FixedHeaders ==
  pc \in {"web", "retry", "lookup", "wait", "local", "done"} =>
     /\ DOMAIN request.headers =
          {"Accept", "Accept-Encoding", "X-Subscription-Token"}
     /\ request.headers["Accept"] = "application/json"
     /\ request.headers["Accept-Encoding"] = "gzip"
     /\ request.headers["X-Subscription-Token"] = config.apiKey
     /\ config.apiKey \in ApiKeys

C24_Witness ==
  /\ pc = "retry"
  /\ nWebRequests = 2
  /\ request.params["result_filter"] = <<WIDENED_RESULT_FILTER>>
  /\ request.headers["X-Subscription-Token"] = "secret"

\* C25: no step of any operation, whether it succeeds or fails, changes the
\* API key, the base URL, pollInterval or maxPollAttempts of the client.
C25_ConfigurationImmutable ==
  [][ /\ config'.apiKey = config.apiKey
      /\ config'.baseUrl = config.baseUrl
      /\ config'.pollInterval = config.pollInterval
      /\ config'.maxPollAttempts = config.maxPollAttempts ]_vars

C25_Witness ==
  /\ pc = "done"
  /\ op = "getSummarizedAnswer"
  /\ pollOutcome = Rejected(SummaryTimeoutError)
  /\ pollingOptions.present
  /\ config = Constructor(revision, "secret", pollingOptions)
  /\ config.maxPollAttempts = 2

\* C27: at most one summarizer request of a call is in flight, and a step
\* that issues one finds none in flight and leaves no timer pending: after
\* the first request, the step that issues a request is the expiry of the
\* wait that followed the previous response.
C27_OneLookupInFlight ==
  [][ /\ lookupsInFlight' <= 1
      /\ nLookups' > nLookups =>
            /\ lookupsInFlight = 0
            /\ timersPending' = 0
            /\ nLookups > 0 => (pc = "wait" /\ timersPending = 1) ]_vars

C27_Witness ==
  /\ pc = "lookup"
  /\ nLookups = 2
  /\ nWaits = 1
  /\ lookupsInFlight = 1
  /\ timersPending = 0

\* C28: once an operation has delivered its outcome, and so once a poller
\* has ended in any way (summary returned, "failed", a request's error, a
\* cancelled request, the timeout), no summarizer request is in flight and
\* no interval timer is pending.
C28_NothingPendingAfterOutcome ==
  (pc \in {"done", "idle"} \/ Settled(pollOutcome)) =>
     /\ lookupsInFlight = 0
     /\ timersPending = 0

C28_Witness ==
  /\ pc = "done"
  /\ abortedAt = "wait"
  /\ pollOutcome.state = "rejected"
  /\ Includes(pollOutcome.error.message, <<"canceled">>)
  /\ nWaits >= 1
  /\ lookupsInFlight = 0
  /\ timersPending = 0

\* C29: when the web search of getSummarizedAnswer has failed, no summarizer
\* request was issued, and the web search outcome and the summary outcome
\* the caller holds are both rejected, with the same BraveSearchError, which
\* carries the message of the error webSearch threw.
C29_WebFailureRejectsBoth ==
  (op = "getSummarizedAnswer" /\ webOutcome.state = "rejected") =>
     /\ pc = "done"
     /\ nLookups = 0
     /\ pollOutcome.state = "none"
     /\ CallerWebOutcome.state = "rejected"
     /\ CallerSummaryOutcome.state = "rejected"
     /\ CallerSummaryOutcome.error = CallerWebOutcome.error
     /\ CallerSummaryOutcome.error.name = "BraveSearchError"
     /\ Includes(CallerSummaryOutcome.error.message, webOutcome.error.message)

C29_Witness ==
  /\ revision = "r3"
  /\ op = "getSummarizedAnswer"
  /\ nWebRequests = 2
  /\ webOutcome.state = "rejected"
  /\ summaryOutcome = webOutcome
  /\ Includes(summaryOutcome.error.message, <<"Rate limit exceeded">>)
  /\ nLookups = 0

\* C30: when a summarizer request has thrown, the poller has ended: that
\* request was its last, no timer was started after it, and pollForSummary
\* has thrown the error classified from that failure, which is neither the
\* timeout error nor the "failed" error; the caller's summary outcome is
\* rejected with its message.
C30_LookupErrorEndsPoller ==
  (op = "getSummarizedAnswer" /\ nLookups > 0 /\ lastFailure.name # "none") =>
     /\ pc = "done"
     /\ nLookups = attempt + 1
     /\ nWaits = attempt
     /\ pollOutcome.state = "rejected"
     /\ pollOutcome.error.name = "BraveSearchError"
     /\ pollOutcome.error \notin {SummaryTimeoutError, SummaryFailedError}
     /\ pollOutcome.error.message[1] =
          ( IF lastFailure.hasResponse /\ lastFailure.status = 429
              THEN "Rate limit exceeded"
            ELSE IF lastFailure.hasResponse /\ lastFailure.status = 401
              THEN "Authentication error"
            ELSE "API error (" )
     /\ Includes(pollOutcome.error.message,
                 IF lastFailure.hasResponse /\ lastFailure.data.hasMessage
                 THEN lastFailure.data.message ELSE lastFailure.message)
     /\ CallerSummaryOutcome.state = "rejected"
     /\ Includes(CallerSummaryOutcome.error.message, pollOutcome.error.message)

C30_Witness ==
  /\ pc = "done"
  /\ op = "getSummarizedAnswer"
  /\ nLookups = 2
  /\ nWaits = 1
  /\ config.maxPollAttempts > 2
  /\ lastFailure = AxiosTransportError
  /\ pollOutcome.state = "rejected"
  /\ pollOutcome.error.message =
       <<"API error (", "undefined", "): ", "Network Error">>

\* C26: with several calls polling on one client, under every interleaving
\* each poller hands its own key to summarizerSearch, has issued one request
\* per attempt of its own and never more than maxPollAttempts, and throws
\* the timeout error only after maxPollAttempts requests of its own; the
\* step in which one poller ends leaves every other poller as it was.
C26_PollersIndependent ==
  /\ [](\A c \in Calls :
          /\ pollers[c].nLookups <= config.maxPollAttempts
          /\ pollers[c].pc \in {"lookup", "wait"} =>
                /\ pollers[c].lookupKey = KeyOf(c)
                /\ pollers[c].nLookups = pollers[c].attempt + 1
          /\ pollers[c].outcome = Rejected(SummaryTimeoutError) =>
                pollers[c].nLookups = config.maxPollAttempts)
  /\ [][\A c \in Calls :
          (pollers[c].pc # "done" /\ pollers'[c].pc = "done") =>
             \A d \in Calls \ {c} : pollers'[d] = pollers[d]]_vars

C26_Witness ==
  /\ pollers[1].pc = "lookup"
  /\ pollers[1].nLookups = 2
  /\ pollers[1].lookupKey = "k1"
  /\ pollers[2].pc = "done"
  /\ pollers[2].outcome = Rejected(SummaryFailedError)
  /\ pollers[2].nLookups = 1

\* C31: a summarizer request is issued only in a step after which the web
\* search of the call is fulfilled with a response, and the key the poller
\* runs with is the key of that response.  The first request of a poller is
\* issued in the very step in which the web search response arrives; when
\* that step ends the 422 retry, the first web search request had thrown and
\* the response, and so the key, is the retry's.  Later requests leave the
\* key and the web search outcome as they are.
C31_LookupAfterWebResponse ==
  /\ [](nLookups > 0 =>
          /\ webOutcome.state = "fulfilled"
          /\ webOutcome.web.received
          /\ summarizerKey = webOutcome.web.key
          /\ summarizerKey # "")
  /\ [][ nLookups' > nLookups =>
           /\ webOutcome'.state = "fulfilled"
           /\ summarizerKey' = webOutcome'.web.key
           /\ request'.endpoint = "/summarizer/search"
           /\ nLookups = 0 =>
                 /\ pc \in {"web", "retry"}
                 /\ webOutcome.state = "pending"
                 /\ summarizerKey = ""
           /\ pc = "retry" =>
                 /\ nWebRequests = 2
                 /\ firstWebFailure.name = "AxiosError"
                 /\ request.params["result_filter"] = <<WIDENED_RESULT_FILTER>>
           /\ nLookups > 0 =>
                 /\ summarizerKey' = summarizerKey
                 /\ webOutcome' = webOutcome ]_vars

C31_Witness ==
  /\ revision = "r3"
  /\ op = "getSummarizedAnswer"
  /\ nWebRequests = 2
  /\ firstWebFailure.hasResponse
  /\ firstWebFailure.status = 422
  /\ pc = "lookup"
  /\ nLookups = 2
  /\ summarizerKey = "k1"
  /\ webOutcome = FulfilledWeb(WebData(TRUE, "k1"))

Got422OutsideWebSearch ==
  /\ lastFailure.hasResponse
  /\ lastFailure.status = 422
  /\ \/ op \in {"localPoiSearch", "localDescriptionsSearch"}
     \/ op = "getSummarizedAnswer" /\ nLookups > 0

\* C33 (as claimed): when a local request or a summarizer request was
\* answered with HTTP 422, the operation is over with that request as its
\* last (one local request; no web search request and no summarizer request
\* after it, no timer), and its promise is rejected with a message that
\* announces a retry with a modified result_filter.
C33_NoRetryOutsideWebSearch ==
  Got422OutsideWebSearch =>
     /\ pc = "done"
     /\ HandledFailure.state = "rejected"
     /\ op = "getSummarizedAnswer" =>
           (nLookups = attempt + 1 /\ nWaits = attempt /\ nWebRequests <= 2)
     /\ op # "getSummarizedAnswer" =>
           (nLocalRequests = 1 /\ nWebRequests = 0 /\ nLookups = 0)
     /\ request.params # RetryParams(request.params)
     /\ Includes(HandledFailure.error.message, <<RETRY_PHRASE>>)

\* C34: the step that issues the retry request issues a request to the same
\* URL and endpoint with the same headers, whose parameters are those of the
\* first request with result_filter set to the widened list: every other
\* parameter of the first request, q included, is there with its value, no
\* parameter is added besides result_filter, and result_filter is the
\* widened list whether the first request had a result_filter or not.
C34_RetryChangesOnlyResultFilter ==
  [][ pc' = "retry" =>
        /\ pc = "web"
        /\ request'.url = request.url
        /\ request'.endpoint = request.endpoint
        /\ request'.headers = request.headers
        /\ DOMAIN request'.params = DOMAIN request.params \cup {"result_filter"}
        /\ \A k \in DOMAIN request.params \ {"result_filter"} :
              request'.params[k] = request.params[k]
        /\ "q" \in DOMAIN request'.params
        /\ request'.params["result_filter"] = <<WIDENED_RESULT_FILTER>> ]_vars

C34_Witness ==
  /\ pc = "retry"
  /\ args.options = [result_filter |-> JsStr("web")]
  /\ request.params =
       [q |-> <<"stars">>, result_filter |-> <<WIDENED_RESULT_FILTER>>]

\* C35 (as claimed): the request of an operation carries its positional
\* argument, whatever the options mapping holds: q is the query of the web
\* search, ids is the joined identifier list of the local search, key is the
\* key the poller was given.
C35_PositionalArgumentSent ==
  /\ pc = "web" =>
        /\ "q" \in DOMAIN request.params
        /\ request.params["q"] = <<args.query>>
  /\ pc = "local" =>
        /\ "ids" \in DOMAIN request.params
        /\ request.params["ids"] = JoinTokens(args.ids)
  /\ pc = "lookup" =>
        /\ "key" \in DOMAIN request.params
        /\ request.params["key"] = <<summarizerKey>>

\* C36: the web search request of getSummarizedAnswer(query, options, ...)
\* is the request of webSearch(query, options): same URL, endpoint and
\* headers, and as parameters q and the defined options of the call, each
\* converted to a string, and nothing else; a summary parameter is there
\* only when the caller's options have one.
C36_SameRequestAsWebSearch ==
  (pc = "web" /\ op \in {"webSearch", "getSummarizedAnswer"}) =>
     /\ request = Request(config, "/web/search",
                          WebSearchParams(args.query, args.options))
     /\ DOMAIN request.params =
          {"q"} \cup {k \in DOMAIN args.options :
                        args.options[k].t # "undefined"}
     /\ \A k \in DOMAIN request.params :
          IF k \in DOMAIN args.options
          THEN request.params[k] = toString(args.options[k])
          ELSE request.params[k] = <<args.query>>
     /\ "summary" \in DOMAIN request.params =>
          "summary" \in DOMAIN args.options

C36_Witness ==
  /\ pc = "web"
  /\ op = "getSummarizedAnswer"
  /\ revision = "r4"
  /\ args.options = [count |-> JsNum(5), safesearch |-> Undefined]
  /\ DOMAIN request.params = {"q", "count"}

====
